---- MODULE Spec2Model ----
(***************************************************************************)
(* The two crawlers of internet-yellow-pages:                              *)
(*   iyp/crawlers/bgpkit/as2rel.py   AS relationships -> IYP database      *)
(*   iyp/crawlers/peeringdb/ix.py    exchange points  -> wikibase          *)
(* One process runs one crawler script; the script may be started again    *)
(* later against the same store.  Every fetch and every store call is one  *)
(* step; a store call either succeeds or raises.                           *)
(***************************************************************************)
EXTENDS Integers, Sequences, FiniteSets, TLC

(* ------------------------------ bounds -------------------------------- *)
MaxRecs == 2
MaxIxs == 2
MaxPfx == 1
MaxLans == 1
MaxClock == 2
TicksPerDay == 2
MaxRuns == 2

Asns == {64500, 64501}
IxIds == {7, 12}
OrgIds == {1, 2}
LanIds == {31}
Prefixes == {"p1"}
Statuses == {200, 204, 404}

(* ----------------------------- constants ------------------------------ *)
URL_BGPKIT_AS2REL == "https://data.bgpkit.com/as2rel/as2rel-latest.json.bz2"
URL_PDB_IXS == "https://peeringdb.com/api/ix"
URL_PDB_LAN == "https://peeringdb.com/api/ixlan"
IXID_LABEL == "PeeringDB IX ID"
ORGID_LABEL == "PeeringDB organization ID"

(* ------------------------- sequences, helpers ------------------------- *)
SeqsUpTo(S, n) == UNION {[1..m -> S] : m \in 0..n}

Range(s) == {s[k] : k \in 1..Len(s)}

Min(S) == CHOOSE x \in S : \A y \in S : x <= y

Digit == <<"0", "1", "2", "3", "4", "5", "6", "7", "8", "9">>

\* str() of a non-negative integer: its decimal digits
RECURSIVE Str(_)
Str(n) == IF n < 10 THEN Digit[n + 1] ELSE Str(n \div 10) \o Digit[(n % 10) + 1]

\* str.strip() on a name given as a sequence of characters
RECURSIVE LStrip(_)
LStrip(s) == IF s # <<>> /\ Head(s) = " " THEN LStrip(Tail(s)) ELSE s

RECURSIVE RStrip(_)
RStrip(s) == IF s # <<>> /\ s[Len(s)] = " " THEN RStrip(SubSeq(s, 1, Len(s) - 1)) ELSE s

Strip(s) == RStrip(LStrip(s))

\* datetime.replace(hour=0, minute=0, second=0, microsecond=0)
Truncate(t) == (t \div TicksPerDay) * TicksPerDay

None == "None"

(* ------------------------------- state -------------------------------- *)
VARIABLES
    crawler,      \* which script this process runs: "as2rel" or "ix"
    pc,           \* position of the process
    run,          \* number of the run against the store
    clock,        \* wall clock, in ticks
    i,            \* index of the record the loop of run() is at
    conn,         \* the store handle of the crawler: "none", "open", "closed"
    closes,       \* number of close() calls of this run
    failed,       \* a fetch of this run answered with a non-success status
    after_fail,   \* fetches and store calls of this run issued after a non-success fetch
    submitted,    \* the statements the latest store call of the record was handed
    clock0,       \* the clock when the crawler of this run was constructed
    \* as2rel.py
    as_reference, \* self.reference
    input,        \* the decoded relationship records
    as1_qid,      \* local of update_asn
    as2_qid,      \* local of update_asn
    as_ret,       \* the value update_asn returned last
    printed,      \* records reported by the except branch
    raised,       \* record indexes whose add_links raised
    iyp_nodes,    \* IYP database: nodes, node id = position
    iyp_links,    \* IYP database: links
    applied,      \* <<record, point in time>> of the updates add_links accepted
    \* ix.py
    ixid2qid,     \* self.ixid2qid
    orgid2qid,    \* self.orgid2qid
    today,        \* self.today
    reference,    \* self.reference
    ixs,          \* the IX list: ids
    ix,           \* the IX record update_ix works on
    statements,   \* local of update_ix
    ix_qid,       \* local of update_ix
    lan_k,        \* index in ix['ixlan_set']
    pfx_ref,      \* local of update_ix
    pfxs,         \* prefixes of the LANs of the response, in order
    pfx_j,        \* index in pfxs
    pfx_qid,      \* local of update_ix
    logged_in,    \* self.wh.login() was called
    wb_items,     \* wikibase: labels of the items, qid = position
    wb_stmts,     \* wikibase: statements
    preloaded,    \* the IX ids the cache held after construction
    added,        \* IX ids add_item was called for in this run, in order
    returned,     \* <<IX id, qid>> pairs ix_qid returned in this run
    ix_applied    \* <<kind, record, point in time>> of the upserts the wikibase accepted

envVars == <<crawler, pc, run, clock, i, conn, closes, failed, after_fail,
             submitted, clock0>>
asVars == <<as_reference, input, as1_qid, as2_qid, as_ret, printed, raised,
            iyp_nodes, iyp_links, applied>>
ixLocals == <<ixs, ix, statements, ix_qid, lan_k, pfx_ref, pfxs, pfx_j, pfx_qid>>
ixSelf == <<ixid2qid, orgid2qid, today, reference, logged_in, preloaded>>
ixStore == <<wb_items, wb_stmts>>
ixGhost == <<added, returned, ix_applied>>
ixVars == <<ixLocals, ixSelf, ixStore, ixGhost>>
vars == <<envVars, asVars, ixVars>>

\* a status outside 2xx
NonSuccess(status) == status < 200 \/ status > 299

Note(n) == IF failed THEN after_fail + n ELSE after_fail

Sub(api, node, stmts) == {[api |-> api, node |-> node, stmt |-> s] : s \in Range(stmts)}

(* ------------------------ IYP database (as2rel) ------------------------ *)
\* get_node(type, match_properties, create=True): the node matching the
\* properties, created when there is none
IypGetNode(nodes, asn) ==
    LET found == {k \in 1..Len(nodes) : nodes[k] = [type |-> "AS", asn |-> asn]}
    IN  IF found # {}
        THEN [nodes |-> nodes, node |-> Min(found)]
        ELSE [nodes |-> Append(nodes, [type |-> "AS", asn |-> asn]),
              node |-> Len(nodes) + 1]

\* add_links(src, links): each link is created when src has no link of that
\* (relation, target), and updated in place otherwise
RECURSIVE IypAddLinks(_, _, _)
IypAddLinks(links, src, stmts) ==
    IF stmts = <<>> THEN links
    ELSE LET s == Head(stmts)
             same == {l \in links : l.src = src /\ l.rel = s[1] /\ l.dst = s[2]}
             new == [src |-> src, rel |-> s[1], dst |-> s[2], ref |-> s[3]]
         IN  IypAddLinks((links \ same) \cup {new}, src, Tail(stmts))

(* ------------------------------ as2rel.py ------------------------------ *)
\* Crawler.__init__: self.reference
AsReference(t) ==
    [source |-> "BGPKIT",
     reference_url |-> URL_BGPKIT_AS2REL,
     point_in_time |-> Truncate(t)]

\* a node created without looking one up
AsNodeCreate(nodes, asn) ==
    [nodes |-> Append(nodes, [type |-> "AS", asn |-> asn]), node |-> Len(nodes) + 1]

\* update_asn: self.iyp.get_node('AS', {'asn': ...}, create=True)
AsNode(nodes, asn) == IypGetNode(nodes, asn)

\* update_asn: the statements list, with the reference of the crawler
AsStatements(as2) == <<<<"PEERS_WITH", as2, as_reference>>>>

\* the statements attached to the second node
AsSubjectMirrored(as1, as2) == as2

\* update_asn: the node the statements are attached to
AsSubject(as1, as2) == as1

\* no except branch: the error leaves update_asn and run
AsOnLinksErrorPropagate(k, rel) == [pc |-> "crashed", printed |-> <<>>]

\* update_asn: except Exception: print the record and the error, go on
AsOnLinksError(k, rel) == [pc |-> "return", printed |-> <<[index |-> k, rel |-> rel]>>]

\* run without the close() call
AsAfterLoopNoClose(c) == [conn |-> c, closes |-> 0]

\* run: what follows the loop
AsAfterLoop(c) == [conn |-> "closed", closes |-> 1]

\* run: status check of the fetch
AsFetchOk(status) == status = 200

AS_Construct ==
    /\ crawler = "as2rel" /\ pc = "start"
    /\ as_reference' = AsReference(clock)
    /\ clock0' = clock
    /\ conn' = "open"
    /\ pc' = "fetch"
    /\ UNCHANGED <<crawler, run, clock, i, closes, failed, after_fail, submitted>>
    /\ UNCHANGED <<input, as1_qid, as2_qid, as_ret, printed, raised, iyp_nodes,
                   iyp_links, applied>>
    /\ UNCHANGED ixVars

AS_Fetch ==
    /\ crawler = "as2rel" /\ pc = "fetch"
    /\ \E status \in Statuses :
         /\ failed' = (failed \/ NonSuccess(status))
         /\ after_fail' = Note(1)
         /\ IF AsFetchOk(status)
            THEN \E recs \in SeqsUpTo([asn1 : Asns, asn2 : Asns], MaxRecs) :
                    /\ input' = recs
                    /\ i' = 1
                    /\ pc' = "loop"
            ELSE /\ pc' = "exited"
                 /\ UNCHANGED <<input, i>>
    /\ UNCHANGED <<crawler, run, clock, conn, closes, submitted, clock0>>
    /\ UNCHANGED <<as_reference, as1_qid, as2_qid, as_ret, printed, raised,
                   iyp_nodes, iyp_links, applied>>
    /\ UNCHANGED ixVars

\* update_asn, line 42
AS_GetNode1 ==
    /\ crawler = "as2rel" /\ pc = "loop" /\ i <= Len(input)
    /\ after_fail' = Note(1)
    /\ \/ LET r == AsNode(iyp_nodes, input[i].asn1)
          IN  /\ iyp_nodes' = r.nodes
              /\ as1_qid' = r.node
              /\ pc' = "get2"
       \/ /\ pc' = "crashed"
          /\ UNCHANGED <<iyp_nodes, as1_qid>>
    /\ UNCHANGED <<crawler, run, clock, i, conn, closes, failed, submitted, clock0>>
    /\ UNCHANGED <<as_reference, input, as2_qid, as_ret, printed, raised,
                   iyp_links, applied>>
    /\ UNCHANGED ixVars

\* update_asn, line 43
AS_GetNode2 ==
    /\ crawler = "as2rel" /\ pc = "get2"
    /\ after_fail' = Note(1)
    /\ \/ LET r == AsNode(iyp_nodes, input[i].asn2)
          IN  /\ iyp_nodes' = r.nodes
              /\ as2_qid' = r.node
              /\ pc' = "links"
       \/ /\ pc' = "crashed"
          /\ UNCHANGED <<iyp_nodes, as2_qid>>
    /\ UNCHANGED <<crawler, run, clock, i, conn, closes, failed, submitted, clock0>>
    /\ UNCHANGED <<as_reference, input, as1_qid, as_ret, printed, raised,
                   iyp_links, applied>>
    /\ UNCHANGED ixVars

\* update_asn, lines 45-55
AS_AddLinks ==
    /\ crawler = "as2rel" /\ pc = "links"
    /\ after_fail' = Note(1)
    /\ LET stmts == AsStatements(as2_qid)
           subject == AsSubject(as1_qid, as2_qid)
       IN  /\ submitted' = Sub("add_links", subject, stmts)
           /\ \/ /\ iyp_links' = IypAddLinks(iyp_links, subject, stmts)
                 /\ applied' = applied \cup {<<input[i], as_reference.point_in_time>>}
                 /\ pc' = "return"
                 /\ UNCHANGED <<printed, raised>>
              \/ LET h == AsOnLinksError(i, input[i])
                 IN  /\ pc' = h.pc
                     /\ printed' = printed \o h.printed
                     /\ raised' = raised \cup {i}
                     /\ UNCHANGED <<iyp_links, applied>>
    /\ UNCHANGED <<crawler, run, clock, i, conn, closes, failed, clock0>>
    /\ UNCHANGED <<as_reference, input, as1_qid, as2_qid, as_ret, iyp_nodes>>
    /\ UNCHANGED ixVars

\* update_asn, line 57, and the next turn of the loop of run
AS_Return ==
    /\ crawler = "as2rel" /\ pc = "return"
    /\ as_ret' = <<as1_qid, as2_qid>>
    /\ i' = i + 1
    /\ pc' = "loop"
    /\ as1_qid' = 0
    /\ as2_qid' = 0
    /\ submitted' = {}
    /\ UNCHANGED <<crawler, run, clock, conn, closes, failed, after_fail, clock0>>
    /\ UNCHANGED <<as_reference, input, printed, raised, iyp_nodes, iyp_links,
                   applied>>
    /\ UNCHANGED ixVars

\* run, lines 38-39
AS_Close ==
    /\ crawler = "as2rel" /\ pc = "loop" /\ i > Len(input)
    /\ LET a == AsAfterLoop(conn)
       IN  /\ conn' = a.conn
           /\ closes' = closes + a.closes
    /\ pc' = "done"
    /\ UNCHANGED <<crawler, run, clock, i, failed, after_fail, submitted, clock0>>
    /\ UNCHANGED asVars
    /\ UNCHANGED ixVars

(* --------------------------- wikibase (ix.py) --------------------------- *)
\* get_pid(label), get_qid(label): the id of the property, of the item, of that label
Pid(label) == "P:" \o label

Qid(label) == "Q:" \o label

\* the qid of the item at position k
ItemQid(k) == "Q" \o Str(k)

RECURSIVE Join(_)
Join(s) == IF s = <<>> THEN "" ELSE Head(s) \o Join(Tail(s))

\* the parts of a statement given as [pid, value], [pid, value, reference] or
\* [pid, value, reference, qualifiers]
StmtRef(s) == IF Len(s) >= 3 THEN s[3] ELSE <<>>

StmtQuals(s) == IF Len(s) >= 4 THEN s[4] ELSE <<>>

\* today(): the current day
WbToday(t) == Truncate(t)

\* country2qid(code): the item of the country, None when there is none
WbCountry2qid(cc) == IF cc = "DE" THEN Qid("Germany") ELSE None

\* extid2qid: external id -> qid, over the items holding an external ID
\* statement whose qualifier names the class
WbExtid2qid(stmts, class) ==
    LET S == {s \in stmts : /\ s.prop = Pid("external ID")
                            /\ <<Pid("instance of"), Qid(class)>> \in Range(s.quals)}
    IN  [k \in {s.target : s \in S} |-> (CHOOSE s \in S : s.target = k).node]

\* upsert_statements(summary, qid, statements): each statement is created when
\* the item has none of that (property, target), and updated in place otherwise
RECURSIVE WbUpsertStatements(_, _, _)
WbUpsertStatements(stmts, qid, new) ==
    IF new = <<>> THEN stmts
    ELSE LET s == Head(new)
             same == {x \in stmts : x.node = qid /\ x.prop = s[1] /\ x.target = s[2]}
             st == [node |-> qid, prop |-> s[1], target |-> s[2],
                    ref |-> StmtRef(s), quals |-> StmtQuals(s)]
         IN  WbUpsertStatements((stmts \ same) \cup {st}, qid, Tail(new))

\* add_item(summary, label, description, statements): the item holding the
\* external id of the statements, created when there is none
WbAddItem(items, stmts, label, new) ==
    LET ext == {s \in Range(new) : s[1] = Pid("external ID")}
        old == {x \in stmts : \E s \in ext : /\ x.prop = s[1] /\ x.target = s[2]
                                             /\ x.quals = StmtQuals(s)}
        qid == IF old # {} THEN (CHOOSE x \in old : TRUE).node
               ELSE ItemQid(Len(items) + 1)
    IN  [items |-> IF old # {} THEN items ELSE Append(items, label),
         stmts |-> WbUpsertStatements(stmts, qid, new),
         qid |-> qid]

\* prefix2qid(prefix, create=True): the item of the prefix, created when there is none
WbPrefix2qid(items, prefix) ==
    LET found == {k \in 1..Len(items) : items[k] = prefix}
    IN  IF found # {}
        THEN [items |-> items, qid |-> ItemQid(Min(found))]
        ELSE [items |-> Append(items, prefix), qid |-> ItemQid(Len(items) + 1)]

(* -------------------------------- ix.py -------------------------------- *)
\* Crawler.__init__: self.reference
IxReference(t) ==
    <<<<Pid("source"), Qid("PeeringDB")>>,
      <<Pid("reference URL"), URL_PDB_IXS>>,
      <<Pid("point in time"), t>>>>

\* the organization linked without the test for None
IxOrgStatementsUnchecked(org_id) ==
    <<<<Pid("managed by"),
        IF Str(org_id) \in DOMAIN orgid2qid THEN orgid2qid[Str(org_id)] ELSE None,
        reference>>>>

\* update_ix: link to corresponding organization
IxOrgStatements(org_id) ==
    IF Str(org_id) \in DOMAIN orgid2qid
    THEN <<<<Pid("managed by"), orgid2qid[Str(org_id)], reference>>>>
    ELSE <<>>

\* update_ix: set property country
IxCountryStatements(country) ==
    IF country # "" /\ WbCountry2qid(country) # None
    THEN <<<<Pid("country"), WbCountry2qid(country), reference>>>>
    ELSE <<>>

\* update_ix: set property website
IxWebsiteStatements(website) ==
    IF website # "" THEN <<<<Pid("website"), website, reference>>>> ELSE <<>>

\* update_ix: set traffic webpage
IxStatsStatements(url_stats) ==
    IF url_stats # ""
    THEN <<<<Pid("website"), url_stats, reference,
             <<<<Pid("instance of"), Qid("traffic statistics")>>>>>>>>
    ELSE <<>>

\* update_ix: the statements of the IX
IxStatements(x) ==
    <<<<Pid("instance of"), Qid("Internet exchange point")>>,
      <<Pid("name"), Join(Strip(x.name)), reference>>>>
    \o IxOrgStatements(x.org_id)
    \o IxCountryStatements(x.country)
    \o IxWebsiteStatements(x.website)
    \o IxStatsStatements(x.url_stats)

\* update_ix: pfx_url
IxPfxUrl(lan_id) == URL_PDB_LAN \o "/" \o Str(lan_id)

\* pfx_ref with the day read again
IxPfxRefNow(pfx_url) ==
    <<<<Pid("source"), Qid("PeeringDB")>>,
      <<Pid("reference URL"), pfx_url>>,
      <<Pid("point in time"), WbToday(clock)>>>>

\* update_ix: pfx_ref
IxPfxRef(pfx_url) ==
    <<<<Pid("source"), Qid("PeeringDB")>>,
      <<Pid("reference URL"), pfx_url>>,
      <<Pid("point in time"), today>>>>

\* update_ix: pfx_stmts
IxPfxStatements(qid, ref) ==
    <<<<Pid("instance of"), Qid("peering LAN"), ref>>,
      <<Pid("managed by"), qid, ref>>>>

\* ix_qid: the statements of a new IX
IxNewStatements(id) ==
    <<<<Pid("instance of"), Qid("Internet exchange point")>>,
      <<Pid("external ID"), Str(id), <<>>,
        <<<<Pid("instance of"), Qid(IXID_LABEL)>>>>>>>>

\* the cache asked with a key it does not hold the ids under
IxCachedRawKey(id) == ("id:" \o Str(id)) \in DOMAIN ixid2qid

\* ix_qid: is the IX in the cache
IxCached(id) == Str(id) \in DOMAIN ixid2qid

\* ix_qid: keep track of the qid
IxKeep(id, qid) == (Str(id) :> qid) @@ ixid2qid

\* no status check
IxFetchUnchecked(status) == TRUE

\* run, update_ix: status check of a fetch
IxFetchOk(status) == status = 200

\* run: what follows the loop
IxAfterLoop(c) == [conn |-> c, closes |-> 0]

NoIx ==
    [id |-> 0, name |-> <<>>, name_long |-> "", org_id |-> 0, country |-> "",
     website |-> "", url_stats |-> "", has_ixlan_set |-> FALSE, ixlan_set |-> <<>>]

\* the records the detail endpoint may answer with for an id: every field set
\* (with organization 1 and with organization 2), every optional field empty
\* and no ixlan_set, and a country without an item with an empty ixlan_set
IxInfos(id) ==
    {[id |-> id, name |-> <<" ", "A", "M", "S", " ">>, name_long |-> "Amsterdam",
      org_id |-> o, country |-> "DE", website |-> "https://ix.example",
      url_stats |-> "https://ix.example/stats", has_ixlan_set |-> TRUE,
      ixlan_set |-> l] : o \in OrgIds, l \in SeqsUpTo(LanIds, MaxLans) \ {<<>>}}
    \cup
    {[id |-> id, name |-> <<"A", "M", "S">>, name_long |-> "", org_id |-> 2,
      country |-> "", website |-> "", url_stats |-> "", has_ixlan_set |-> FALSE,
      ixlan_set |-> <<>>],
     [id |-> id, name |-> <<"A", "M", "S">>, name_long |-> "", org_id |-> 1,
      country |-> "XX", website |-> "https://ix.example", url_stats |-> "",
      has_ixlan_set |-> TRUE, ixlan_set |-> <<>>]}

\* Crawler.__init__
IX_Construct ==
    /\ crawler = "ix" /\ pc = "start"
    /\ ixid2qid' = WbExtid2qid(wb_stmts, IXID_LABEL)
    /\ orgid2qid' = WbExtid2qid(wb_stmts, ORGID_LABEL)
    /\ today' = WbToday(clock)
    /\ reference' = IxReference(WbToday(clock))
    /\ preloaded' = DOMAIN WbExtid2qid(wb_stmts, IXID_LABEL)
    /\ clock0' = clock
    /\ conn' = "open"
    /\ pc' = "fetch"
    /\ UNCHANGED <<crawler, run, clock, i, closes, failed, after_fail, submitted>>
    /\ UNCHANGED <<asVars, ixLocals, logged_in, ixStore, ixGhost>>

\* run, lines 51-56
IX_FetchList ==
    /\ crawler = "ix" /\ pc = "fetch"
    /\ \E status \in Statuses :
         /\ failed' = (failed \/ NonSuccess(status))
         /\ after_fail' = Note(1)
         /\ IF IxFetchOk(status)
            THEN \E ids \in SeqsUpTo(IxIds, MaxIxs) :
                    /\ ixs' = ids
                    /\ logged_in' = TRUE
                    /\ i' = 1
                    /\ pc' = "loop"
            ELSE /\ pc' = "exited"
                 /\ UNCHANGED <<ixs, logged_in, i>>
    /\ UNCHANGED <<crawler, run, clock, conn, closes, submitted, clock0>>
    /\ UNCHANGED <<ix, statements, ix_qid, lan_k, pfx_ref, pfxs, pfx_j, pfx_qid>>
    /\ UNCHANGED <<ixid2qid, orgid2qid, today, reference, preloaded>>
    /\ UNCHANGED <<asVars, ixStore, ixGhost>>

\* run, lines 60-64, and update_ix, lines 76-104
IX_FetchDetail ==
    /\ crawler = "ix" /\ pc = "loop" /\ i <= Len(ixs)
    /\ \E status \in Statuses :
         /\ failed' = (failed \/ NonSuccess(status))
         /\ after_fail' = Note(1)
         /\ IF IxFetchOk(status)
            THEN \E info \in IxInfos(ixs[i]) :
                    /\ ix' = info
                    /\ statements' = IxStatements(info)
                    /\ pc' = "ix_qid"
            ELSE /\ pc' = "exited"
                 /\ UNCHANGED <<ix, statements>>
    /\ UNCHANGED <<crawler, run, clock, i, conn, closes, submitted, clock0>>
    /\ UNCHANGED <<ixs, ix_qid, lan_k, pfx_ref, pfxs, pfx_j, pfx_qid>>
    /\ UNCHANGED <<asVars, ixSelf, ixStore, ixGhost>>

\* update_ix, line 106: ix_qid
IX_IxQid ==
    /\ crawler = "ix" /\ pc = "ix_qid"
    /\ IF IxCached(ix.id)
       THEN /\ ix_qid' = ixid2qid[Str(ix.id)]
            /\ returned' = returned \cup {<<Str(ix.id), ixid2qid[Str(ix.id)]>>}
            /\ pc' = "upsert"
            /\ UNCHANGED <<ixid2qid, wb_items, wb_stmts, added, submitted, after_fail>>
       ELSE /\ added' = Append(added, Str(ix.id))
            /\ after_fail' = Note(1)
            /\ submitted' = Sub("add_item", "new", IxNewStatements(ix.id))
            /\ \/ LET r == WbAddItem(wb_items, wb_stmts, Join(ix.name),
                                     IxNewStatements(ix.id))
                      c == IxKeep(ix.id, r.qid)
                  IN  /\ wb_items' = r.items
                      /\ wb_stmts' = r.stmts
                      /\ ixid2qid' = c
                      /\ ix_qid' = c[Str(ix.id)]
                      /\ returned' = returned \cup {<<Str(ix.id), c[Str(ix.id)]>>}
                      /\ pc' = "upsert"
               \/ /\ pc' = "crashed"
                  /\ UNCHANGED <<wb_items, wb_stmts, ixid2qid, ix_qid, returned>>
    /\ UNCHANGED <<crawler, run, clock, i, conn, closes, failed, clock0>>
    /\ UNCHANGED <<ixs, ix, statements, lan_k, pfx_ref, pfxs, pfx_j, pfx_qid>>
    /\ UNCHANGED <<orgid2qid, today, reference, logged_in, preloaded>>
    /\ UNCHANGED <<asVars, ix_applied>>

\* update_ix, lines 107-111
IX_Upsert ==
    /\ crawler = "ix" /\ pc = "upsert"
    /\ after_fail' = Note(1)
    /\ submitted' = Sub("upsert_statements", ix_qid, statements)
    /\ \/ /\ wb_stmts' = WbUpsertStatements(wb_stmts, ix_qid, statements)
          /\ ix_applied' = ix_applied \cup {<<"ix", ix, today>>}
          /\ lan_k' = 1
          /\ pc' = "lans"
       \/ /\ pc' = "crashed"
          /\ UNCHANGED <<wb_stmts, ix_applied, lan_k>>
    /\ UNCHANGED <<crawler, run, clock, i, conn, closes, failed, clock0>>
    /\ UNCHANGED <<ixs, ix, statements, ix_qid, pfx_ref, pfxs, pfx_j, pfx_qid>>
    /\ UNCHANGED <<asVars, ixSelf, wb_items, added, returned>>

\* update_ix, lines 112-123
IX_FetchLan ==
    /\ crawler = "ix" /\ pc = "lans" /\ ix.has_ixlan_set /\ lan_k <= Len(ix.ixlan_set)
    /\ pfx_ref' = IxPfxRef(IxPfxUrl(ix.ixlan_set[lan_k]))
    /\ \E status \in Statuses :
         /\ failed' = (failed \/ NonSuccess(status))
         /\ after_fail' = Note(1)
         /\ IF IxFetchOk(status)
            THEN \E ps \in SeqsUpTo(Prefixes, MaxPfx) :
                    /\ pfxs' = ps
                    /\ pfx_j' = 1
                    /\ pc' = "pfx"
            ELSE /\ pc' = "exited"
                 /\ UNCHANGED <<pfxs, pfx_j>>
    /\ UNCHANGED <<crawler, run, clock, i, conn, closes, submitted, clock0>>
    /\ UNCHANGED <<ixs, ix, statements, ix_qid, lan_k, pfx_qid>>
    /\ UNCHANGED <<asVars, ixSelf, ixStore, ixGhost>>

\* update_ix, line 127
IX_Prefix2qid ==
    /\ crawler = "ix" /\ pc = "pfx" /\ pfx_j <= Len(pfxs)
    /\ after_fail' = Note(1)
    /\ \/ LET r == WbPrefix2qid(wb_items, pfxs[pfx_j])
          IN  /\ wb_items' = r.items
              /\ pfx_qid' = r.qid
              /\ pc' = "pfx_upsert"
       \/ /\ pc' = "crashed"
          /\ UNCHANGED <<wb_items, pfx_qid>>
    /\ UNCHANGED <<crawler, run, clock, i, conn, closes, failed, submitted, clock0>>
    /\ UNCHANGED <<ixs, ix, statements, ix_qid, lan_k, pfx_ref, pfxs, pfx_j>>
    /\ UNCHANGED <<asVars, ixSelf, wb_stmts, ixGhost>>

\* update_ix, lines 129-134
IX_UpsertPfx ==
    /\ crawler = "ix" /\ pc = "pfx_upsert"
    /\ after_fail' = Note(1)
    /\ LET pfx_stmts == IxPfxStatements(ix_qid, pfx_ref)
       IN  /\ submitted' = Sub("upsert_statements", pfx_qid, pfx_stmts)
           /\ \/ /\ wb_stmts' = WbUpsertStatements(wb_stmts, pfx_qid, pfx_stmts)
                 /\ ix_applied' = ix_applied \cup
                        {<<"pfx", <<ix.id, ix.ixlan_set[lan_k], pfxs[pfx_j]>>, today>>}
                 /\ pfx_j' = pfx_j + 1
                 /\ pc' = "pfx"
              \/ /\ pc' = "crashed"
                 /\ UNCHANGED <<wb_stmts, ix_applied, pfx_j>>
    /\ UNCHANGED <<crawler, run, clock, i, conn, closes, failed, clock0>>
    /\ UNCHANGED <<ixs, ix, statements, ix_qid, lan_k, pfx_ref, pfxs, pfx_qid>>
    /\ UNCHANGED <<asVars, ixSelf, wb_items, added, returned>>

\* update_ix: the next element of ix['ixlan_set']
IX_NextLan ==
    /\ crawler = "ix" /\ pc = "pfx" /\ pfx_j > Len(pfxs)
    /\ lan_k' = lan_k + 1
    /\ pc' = "lans"
    /\ UNCHANGED <<crawler, run, clock, i, conn, closes, failed, after_fail,
                   submitted, clock0>>
    /\ UNCHANGED <<ixs, ix, statements, ix_qid, pfx_ref, pfxs, pfx_j, pfx_qid>>
    /\ UNCHANGED <<asVars, ixSelf, ixStore, ixGhost>>

\* update_ix, line 136, and run, line 69
IX_Return ==
    /\ crawler = "ix" /\ pc = "lans"
    /\ ~ix.has_ixlan_set \/ lan_k > Len(ix.ixlan_set)
    /\ i' = i + 1
    /\ pc' = "loop"
    /\ ix' = NoIx
    /\ statements' = <<>>
    /\ ix_qid' = ""
    /\ lan_k' = 0
    /\ pfx_ref' = <<>>
    /\ pfxs' = <<>>
    /\ pfx_j' = 0
    /\ pfx_qid' = ""
    /\ submitted' = {}
    /\ UNCHANGED <<crawler, run, clock, conn, closes, failed, after_fail, clock0>>
    /\ UNCHANGED <<asVars, ixs, ixSelf, ixStore, ixGhost>>

\* run: the loop is over
IX_Finish ==
    /\ crawler = "ix" /\ pc = "loop" /\ i > Len(ixs)
    /\ LET a == IxAfterLoop(conn)
       IN  /\ conn' = a.conn
           /\ closes' = closes + a.closes
    /\ pc' = "done"
    /\ UNCHANGED <<crawler, run, clock, i, failed, after_fail, submitted, clock0>>
    /\ UNCHANGED <<asVars, ixVars>>

(* ----------------------------- environment ----------------------------- *)
\* time passes
Tick ==
    /\ clock < MaxClock
    /\ clock' = clock + 1
    /\ UNCHANGED <<crawler, pc, run, i, conn, closes, failed, after_fail,
                   submitted, clock0>>
    /\ UNCHANGED <<asVars, ixVars>>

\* the script is started again; the store keeps what the earlier runs wrote
Restart ==
    /\ pc \in {"done", "exited", "crashed"}
    /\ run < MaxRuns
    /\ run' = run + 1
    /\ pc' = "start"
    /\ i' = 0
    /\ conn' = "none"
    /\ closes' = 0
    /\ failed' = FALSE
    /\ after_fail' = 0
    /\ submitted' = {}
    /\ input' = <<>>
    /\ as1_qid' = 0
    /\ as2_qid' = 0
    /\ as_ret' = <<0, 0>>
    /\ printed' = <<>>
    /\ raised' = {}
    /\ ixs' = <<>>
    /\ ix' = NoIx
    /\ statements' = <<>>
    /\ ix_qid' = ""
    /\ lan_k' = 0
    /\ pfx_ref' = <<>>
    /\ pfxs' = <<>>
    /\ pfx_j' = 0
    /\ pfx_qid' = ""
    /\ logged_in' = FALSE
    /\ added' = <<>>
    /\ returned' = {}
    /\ UNCHANGED <<crawler, clock, clock0, as_reference, iyp_nodes, iyp_links, applied>>
    /\ UNCHANGED <<ixid2qid, orgid2qid, today, reference, preloaded, ixStore, ix_applied>>

\* the wikibase before the first run: the item of organization 1, and the
\* item of an exchange point an earlier import may have left
OrgItem(k, org_id) ==
    [node |-> ItemQid(k), prop |-> Pid("external ID"), target |-> Str(org_id),
     ref |-> <<>>, quals |-> <<<<Pid("instance of"), Qid(ORGID_LABEL)>>>>]

IxItem(k, id) ==
    [node |-> ItemQid(k), prop |-> Pid("external ID"), target |-> Str(id),
     ref |-> <<>>, quals |-> <<<<Pid("instance of"), Qid(IXID_LABEL)>>>>]

InitialWikibases ==
    {[items |-> <<"Org1">>, stmts |-> {OrgItem(1, 1)}],
     [items |-> <<"Org1", "AMS">>, stmts |-> {OrgItem(1, 1), IxItem(2, 7)}]}

Init ==
    /\ crawler \in {"as2rel", "ix"}
    /\ pc = "start"
    /\ run = 1
    /\ clock = TicksPerDay - 1      \* the last tick of a day
    /\ i = 0
    /\ conn = "none"
    /\ closes = 0
    /\ failed = FALSE
    /\ after_fail = 0
    /\ submitted = {}
    /\ clock0 = 0
    /\ as_reference = AsReference(0)
    /\ input = <<>>
    /\ as1_qid = 0
    /\ as2_qid = 0
    /\ as_ret = <<0, 0>>
    /\ printed = <<>>
    /\ raised = {}
    /\ iyp_nodes = <<>>
    /\ iyp_links = {}
    /\ applied = {}
    /\ ixid2qid = <<>>
    /\ orgid2qid = <<>>
    /\ today = 0
    /\ reference = IxReference(0)
    /\ ixs = <<>>
    /\ ix = NoIx
    /\ statements = <<>>
    /\ ix_qid = ""
    /\ lan_k = 0
    /\ pfx_ref = <<>>
    /\ pfxs = <<>>
    /\ pfx_j = 0
    /\ pfx_qid = ""
    /\ logged_in = FALSE
    /\ \E w \in InitialWikibases :
         /\ wb_items = IF crawler = "ix" THEN w.items ELSE <<>>
         /\ wb_stmts = IF crawler = "ix" THEN w.stmts ELSE {}
    /\ preloaded = {}
    /\ added = <<>>
    /\ returned = {}
    /\ ix_applied = {}

\* one run of a crawler
NextRun ==
    \/ AS_Construct
    \/ AS_Fetch
    \/ AS_GetNode1
    \/ AS_GetNode2
    \/ AS_AddLinks
    \/ AS_Return
    \/ AS_Close
    \/ IX_Construct
    \/ IX_FetchList
    \/ IX_FetchDetail
    \/ IX_IxQid
    \/ IX_Upsert
    \/ IX_FetchLan
    \/ IX_Prefix2qid
    \/ IX_UpsertPfx
    \/ IX_NextLan
    \/ IX_Return
    \/ IX_Finish
    \/ Tick

SpecRun == Init /\ [][NextRun]_vars

\* runs of a crawler, one after the other, against the same store
Next ==
    \/ NextRun
    \/ Restart

Spec == Init /\ [][Next]_vars

(* ------------------------------- claims -------------------------------- *)
LinkKeys(links) == {<<l.src, l.rel, l.dst>> : l \in links}

StmtKeys(stmts) == {<<x.node, x.prop, x.target>> : x \in stmts}

ExtIds(stmts) == {<<x.target, x.quals>> : x \in {y \in stmts : y.prop = Pid("external ID")}}

NoDuplicateAs(nodes, links) ==
    /\ \A a, b \in 1..Len(nodes) : nodes[a] = nodes[b] => a = b
    /\ Cardinality(LinkKeys(links)) = Cardinality(links)

NoDuplicateIx(items, stmts) ==
    /\ \A x, y \in stmts :
          (x.prop = Pid("external ID") /\ y.prop = x.prop /\ x.target = y.target
             /\ x.quals = y.quals) => x.node = y.node
    /\ \A a, b \in 1..Len(items) :
          (items[a] \in Prefixes /\ items[a] = items[b]) => a = b
    /\ Cardinality(StmtKeys(stmts)) = Cardinality(stmts)

InUpdateAsn == crawler = "as2rel" /\ i \in 1..Len(input) /\ pc \in {"loop", "get2", "links"}

InIxUpsert == crawler = "ix" /\ pc \in {"ix_qid", "upsert"}

InPfxUpsert ==
    /\ crawler = "ix"
    /\ pc = "pfx_upsert" \/ (pc = "pfx" /\ pfx_j <= Len(pfxs))

PfxUnit == <<ix.id, ix.ixlan_set[lan_k], pfxs[pfx_j]>>

\* C1: within one run every ix_qid call with the same IX id returns the same
\* qid, add_item is called at most once per IX id, and never for an id the
\* preloaded cache held.
C1_ResolverDeterminism ==
    /\ \A p, q \in returned : p[1] = q[1] => p[2] = q[2]
    /\ \A a, b \in 1..Len(added) : added[a] = added[b] => a = b
    /\ \A a \in 1..Len(added) : added[a] \notin preloaded

\* the second record of a run has the id of the first, which add_item created,
\* and ix_qid has answered it
C1_Witness ==
    /\ crawler = "ix" /\ pc = "upsert" /\ i = 2
    /\ ixs[1] = ixs[2]
    /\ added = <<Str(ixs[1])>>
    /\ returned = {<<Str(ixs[1]), ix_qid>>}

\* C2: with a store that creates when absent and updates otherwise, a record
\* applied again (in the same run or in a later one) leaves the nodes and the
\* (relation, target) of the statements as they were, the store has no second
\* node of an external identifier and no second statement of a (relation,
\* target); when the point in time is the one of the first application, the
\* links of the AS and the statements of the IX are left as they were in full.
C2_Idempotent ==
    [][/\ (InUpdateAsn /\ \E t \in 0..MaxClock : <<input[i], t>> \in applied)
            => (iyp_nodes' = iyp_nodes /\ LinkKeys(iyp_links') = LinkKeys(iyp_links))
       /\ (InUpdateAsn /\ <<input[i], as_reference.point_in_time>> \in applied)
            => iyp_links' = iyp_links
       /\ (InIxUpsert /\ \E t \in 0..MaxClock : <<"ix", ix, t>> \in ix_applied)
            => (wb_items' = wb_items /\ StmtKeys(wb_stmts') = StmtKeys(wb_stmts))
       /\ (InIxUpsert /\ <<"ix", ix, today>> \in ix_applied)
            => wb_stmts' = wb_stmts
       /\ (InPfxUpsert /\ \E t \in 0..MaxClock : <<"pfx", PfxUnit, t>> \in ix_applied)
            => (wb_items' = wb_items /\ StmtKeys(wb_stmts') = StmtKeys(wb_stmts))
       /\ NoDuplicateAs(iyp_nodes', iyp_links')
       /\ NoDuplicateIx(wb_items', wb_stmts')]_vars

\* a second run, on a later day, has applied an IX record the first run applied
C2_Witness ==
    /\ crawler = "ix" /\ run = 2 /\ pc = "lans"
    /\ \E t \in 0..MaxClock : t # today /\ <<"ix", ix, t>> \in ix_applied
    /\ <<"ix", ix, today>> \in ix_applied

\* C3: when add_links raises for record k, the run goes on with the records
\* after k, one error naming record k is reported, and none for a record whose
\* add_links did not raise.
C3_PartialFailureIsolation ==
    crawler = "as2rel" =>
      /\ \A k \in 1..Len(input) :
            Cardinality({m \in 1..Len(printed) : printed[m].index = k})
              = IF k \in raised THEN 1 ELSE 0
      /\ \A m \in 1..Len(printed) :
            /\ printed[m].index \in 1..Len(input)
            /\ printed[m].rel = input[printed[m].index]
      /\ \A k \in raised : i > k \/ (i = k /\ pc = "return")
      /\ pc = "done" => i = Len(input) + 1

\* the run is over, add_links raised for the first of two records
C3_Witness ==
    /\ crawler = "as2rel" /\ pc = "done"
    /\ Len(input) = 2
    /\ raised = {1}

\* C4: a store call that raises abandons the record only: the run does not end.
C4_StoreErrorsRecoverable == pc # "crashed"

\* C5: after a fetch answered with a non-success status the run is over: no
\* fetch and no store call follows.
C5_FetchFailFast ==
    /\ after_fail = 0
    /\ failed => pc = "exited"

\* a LAN request failed after the IX was written
C5_Witness ==
    /\ crawler = "ix" /\ pc = "exited" /\ failed
    /\ lan_k = 1 /\ i = 2
    /\ <<"ix", ix, today>> \in ix_applied

OrgMissing == Str(ix.org_id) \notin DOMAIN orgid2qid

\* C6: for a record whose org_id the preloaded mapping does not hold, the
\* statements of the IX hold no "managed by", no item is created for the
\* organization, the other applicable statements are there, they are what the
\* store is handed, and the record goes on to its LANs.
C6_MissingOrganization ==
    (crawler = "ix" /\ pc \in {"ix_qid", "upsert", "lans", "pfx", "pfx_upsert"} /\ OrgMissing)
      => /\ \A s \in Range(statements) : s[1] # Pid("managed by")
         /\ Str(ix.org_id) \notin DOMAIN WbExtid2qid(wb_stmts, ORGID_LABEL)
         /\ <<Pid("instance of"), Qid("Internet exchange point")>> \in Range(statements)
         /\ <<Pid("name"), Join(Strip(ix.name)), reference>> \in Range(statements)
         /\ (ix.country # "" /\ WbCountry2qid(ix.country) # None)
              => <<Pid("country"), WbCountry2qid(ix.country), reference>>
                   \in Range(statements)
         /\ (ix.website # "")
              => <<Pid("website"), ix.website, reference>> \in Range(statements)
         /\ (ix.url_stats # "")
              => <<Pid("website"), ix.url_stats, reference,
                   <<<<Pid("instance of"), Qid("traffic statistics")>>>>>>
                   \in Range(statements)
         /\ (pc = "lans" /\ lan_k = 1)
              => submitted = Sub("upsert_statements", ix_qid, statements)

\* the second record of a run has no organization, and its prefix is at hand
C6_Witness ==
    /\ crawler = "ix" /\ pc = "pfx_upsert" /\ i = 2
    /\ OrgMissing
    /\ ix.url_stats # ""

PointInTime(ref) == ref[3][2]

\* C7: the point in time is computed when the crawler is constructed, and every
\* reference of a statement handed to the store in the run carries it.
C7_ReferenceStability ==
    /\ (crawler = "as2rel" /\ pc # "start") =>
          /\ as_reference.point_in_time = Truncate(clock0)
          /\ \A s \in submitted : s.stmt[3].point_in_time = Truncate(clock0)
    /\ (crawler = "ix" /\ pc # "start") =>
          /\ today = WbToday(clock0)
          /\ PointInTime(reference) = WbToday(clock0)
          /\ pfx_ref # <<>> => PointInTime(pfx_ref) = WbToday(clock0)
          /\ \A s \in submitted :
                StmtRef(s.stmt) # <<>> => PointInTime(StmtRef(s.stmt)) = WbToday(clock0)

\* the statements of a prefix are handed over on the day after the construction
C7_Witness ==
    /\ crawler = "ix" /\ pc = "pfx" /\ pfx_j = 2
    /\ WbToday(clock) # WbToday(clock0)
    /\ \E s \in submitted : StmtRef(s.stmt) = pfx_ref

\* C8: every statement handed to the store carries a non-empty reference.
C8_EveryStatementReferenced ==
    /\ crawler = "as2rel" => \A s \in submitted : Len(s.stmt) >= 3
    /\ crawler = "ix" => \A s \in submitted : StmtRef(s.stmt) # <<>>

AsNodeOf(asn) == [type |-> "AS", asn |-> asn]

\* what C9 says of a record whose nodes are resolved, the node of asn2 apart
C9_Common ==
    /\ (crawler = "as2rel" /\ pc = "return") =>
          /\ iyp_nodes[as1_qid] = AsNodeOf(input[i].asn1)
          /\ iyp_nodes[as2_qid] = AsNodeOf(input[i].asn2)
          /\ submitted = {[api |-> "add_links", node |-> as1_qid,
                           stmt |-> <<"PEERS_WITH", as2_qid, as_reference>>]}
          /\ as_reference.source = "BGPKIT"
    /\ (crawler = "as2rel" /\ pc = "loop" /\ i > 1) =>
          /\ iyp_nodes[as_ret[1]] = AsNodeOf(input[i - 1].asn1)
          /\ iyp_nodes[as_ret[2]] = AsNodeOf(input[i - 1].asn2)

C10_AsStated == pc = "done" => (conn = "closed" /\ closes = 1)

\* C10, amended: a run of the AS crawler that iterated all records has closed
\* the connection once, and not before the loop was over; the exchange point
\* crawler never closes its handle.
C10_ConnectionRelease ==
    /\ crawler = "as2rel" =>
          /\ pc = "done" => (conn = "closed" /\ closes = 1)
          /\ pc # "done" => (conn # "closed" /\ closes = 0)
    /\ crawler = "ix" => (conn # "closed" /\ closes = 0)

\* a run of the AS crawler over two records is over
C10_Witness ==
    /\ crawler = "as2rel" /\ pc = "done"
    /\ Len(input) = 2
    /\ conn = "closed"

====
